---- MODULE Spec2Model ----
(***************************************************************************)
(* Message-passing encoders of chemprop.v2 (molecule.py):                  *)
(* MessagePassingBlockBase.__init__ / finalize, BondMessageBlock.forward   *)
(* and AtomMessageBlock.forward, run step by step on small batched graphs. *)
(*                                                                         *)
(* Tensors are sequences of rows, a row is a sequence of numbers.  Python  *)
(* indices are 0-based: row i of tensor T is T[i + 1].  Index arrays keep  *)
(* their 0-based values, so index 0 is the padding (sentinel) index.       *)
(* Real numbers are fixed-point integers: the real 1.0 is Unit, chosen so  *)
(* that every halving of the symmetrization step is exact.                 *)
(***************************************************************************)
EXTENDS Integers, Sequences, FiniteSets, TLC

VARIABLES
    pc,        \* position of the engine: "new", "ready", "loop", "body", "readout", "done", "error"
    cfg,       \* attributes set by __init__ (None before construction)
    bmg,       \* the BatchMolGraph passed to forward
    V_d,       \* the descriptor tensor passed to forward, or None
    H_0,       \* H_0 of forward
    H,         \* H_e (bond variant) / H_v (atom variant) of forward
    M,         \* M_e / M_v of forward
    k,         \* the loop variable _ of `for _ in range(1, self.depth)`
    ip,        \* position inside the loop body (index into the body's statements)
    out,       \* the tensor returned by forward (None until it returns)
    err,       \* the exception that ended the call: [kind, args], kind NoError if none
    hist       \* history: the molecule list the batch was built from and what the
               \* call did so far (never read by the engine)

vars == <<pc, cfg, bmg, V_d, H_0, H, M, k, ip, out, err, hist>>

\* Python's None, for an optional tensor or an optional integer: an optional
\* value x that is present is Some(x)
None == <<>>

Some(x) == <<x>>

Val(o) == o[1]

\* no exception
NoError == "none"

(***************************************************************************)
(* Bounds of the model.                                                    *)
(***************************************************************************)
MaxDepth == 3      \* depth ranges over 0..MaxDepth
MaxMols == 2       \* a batch holds 0..MaxMols molecule graphs
MaxChain == 3      \* molecule graphs are chains of 1..MaxChain atoms

\* the fixed-point representation of 1.0: a power of two that keeps the
\* (depth - 1) halvings of line 192 / 224 exact
Unit == 2 ^ MaxDepth

(***************************************************************************)
(* Row and tensor arithmetic (torch).                                      *)
(***************************************************************************)
Zeros(n) == [j \in 1..n |-> 0]

VecAdd(a, b) == [j \in 1..Len(a) |-> a[j] + b[j]]

VecSub(a, b) == [j \in 1..Len(a) |-> a[j] - b[j]]

VecHalf(a) == [j \in 1..Len(a) |-> a[j] \div 2]

RECURSIVE SumRows(_, _)
\* rows.sum(0) of a (possibly empty) list of rows of width w
SumRows(rows, w) ==
    IF rows = <<>> THEN Zeros(w) ELSE VecAdd(rows[1], SumRows(Tail(rows), w))

\* width of the rows of a tensor (T.shape[1])
Width(T) == IF T = <<>> THEN 0 ELSE Len(T[1])

\* T[idx] for a 1-D index array idx: one row per index
IndexOK(T, idx) == \A n \in 1..Len(idx) : idx[n] >= 0 /\ idx[n] < Len(T)

Gather(T, idx) == [n \in 1..Len(idx) |-> T[idx[n] + 1]]

\* T[idx].sum(1) for a 2-D index array idx (one padded list per row)
GatherSum(T, idx) == [n \in 1..Len(idx) |-> SumRows(Gather(T, idx[n]), Width(T))]

\* torch.cat((A, B), 1); needs as many rows in A as in B
CatOK(A, B) == Len(A) = Len(B)

Cat(A, B) == [n \in 1..Len(A) |-> A[n] \o B[n]]

\* A + B with broadcasting over the row dimension
AddOK(A, B) == Len(A) = Len(B) \/ Len(A) = 1 \/ Len(B) = 1

Add(A, B) ==
    LET rows == IF Len(A) >= Len(B) THEN Len(A) ELSE Len(B)
        ra(n) == IF Len(A) = 1 THEN A[1] ELSE A[n]
        rb(n) == IF Len(B) = 1 THEN B[1] ELSE B[n]
    IN  [n \in 1..rows |-> VecAdd(ra(n), rb(n))]

Sub(A, B) == [n \in 1..Len(A) |-> VecSub(A[n], B[n])]

Half(A) == [n \in 1..Len(A) |-> VecHalf(A[n])]

\* self.tau: get_activation_function("relu")
Tau(A) == [n \in 1..Len(A) |-> [j \in 1..Len(A[n]) |-> IF A[n][j] > 0 THEN A[n][j] ELSE 0]]

\* self.dropout: nn.Dropout(0), the identity
Dropout(A) == A

(***************************************************************************)
(* nn.Linear: a layer is [name, inF, outF, bias]; its learned weights are  *)
(* fixed for the whole run (the engine never mutates them).                *)
(***************************************************************************)
\* the learned weight of layer `name` from input feature i to output feature j
Wgt(name, i, j) ==
    IF name = "W_i" THEN 1
    ELSE IF (i + j) % 2 = 0 THEN 1 ELSE -1

\* the learned bias of a layer that has one
BiasVal == Unit

Layer(name, inF, outF, bias) == [name |-> name, inF |-> inF, outF |-> outF, bias |-> bias]

RECURSIVE Dot(_, _, _, _)
\* sum over i in 1..n of Wgt(name, i, j) * x[i]
Dot(name, x, j, n) ==
    IF n = 0 THEN 0 ELSE Wgt(name, n, j) * x[n] + Dot(name, x, j, n - 1)

\* a layer applied to a tensor raises RuntimeError unless the row width is in_features
LinearOK(L, X) == Width(X) = L.inF

Linear(L, X) ==
    [n \in 1..Len(X) |->
        [j \in 1..L.outF |-> Dot(L.name, X[n], j, L.inF) + (IF L.bias THEN BiasVal ELSE 0)]]

(***************************************************************************)
(* The batched graph representation handed to forward.  Its builder is not *)
(* part of molecule.py: it follows the data model (row 0 of V and E is the *)
(* zero sentinel, a2b lists the incoming directed edges of an atom, b2a    *)
(* the origin atom of an edge, every neighbour list is padded with 0 to    *)
(* the batch-wide maximum arity).                                          *)
(***************************************************************************)
\* a molecule graph: n atoms 1..n and the chain of bonds <<a, a + 1>>
Chain(n) == [n |-> n, bonds |-> [b \in 1..(n - 1) |-> <<b, b + 1>>]]

Library == {Chain(n) : n \in 1..MaxChain}

RECURSIVE SeqsUpTo(_, _)
SeqsUpTo(S, n) ==
    IF n = 0 THEN {<<>>}
    ELSE LET shorter == SeqsUpTo(S, n - 1)
         IN  shorter \cup {Append(s, x) : s \in {t \in shorter : Len(t) = n - 1}, x \in S}

\* the lists of molecule graphs a batch is built from
MolLists == SeqsUpTo(Library, MaxMols)

\* bond b of a molecule gives directed edges 2b - 1 (a1 -> a2) and 2b (a2 -> a1)
NEdges(mol) == 2 * Len(mol.bonds)

Origin(mol, e) == IF e % 2 = 1 THEN mol.bonds[(e + 1) \div 2][1] ELSE mol.bonds[e \div 2][2]

Dest(mol, e) == IF e % 2 = 1 THEN mol.bonds[(e + 1) \div 2][2] ELSE mol.bonds[e \div 2][1]

Rev(e) == IF e % 2 = 1 THEN e + 1 ELSE e - 1

RECURSIVE Incoming(_, _, _)
\* the directed edges 1..e of mol whose destination is atom a, in increasing order
Incoming(mol, a, e) ==
    IF e = 0 THEN <<>>
    ELSE IF Dest(mol, e) = a THEN Append(Incoming(mol, a, e - 1), e)
    ELSE Incoming(mol, a, e - 1)

RECURSIVE OffA(_, _)
\* number of atoms of the molecules before molecule m
OffA(ms, m) == IF m <= 1 THEN 0 ELSE OffA(ms, m - 1) + ms[m - 1].n

RECURSIVE OffB(_, _)
\* number of directed edges of the molecules before molecule m
OffB(ms, m) == IF m <= 1 THEN 0 ELSE OffB(ms, m - 1) + NEdges(ms[m - 1])

\* the molecule that holds global atom g (g >= 1) / global edge e (e >= 1)
MolOfAtom(ms, g) == CHOOSE m \in 1..Len(ms) : OffA(ms, m) < g /\ g <= OffA(ms, m) + ms[m].n

MolOfEdge(ms, e) == CHOOSE m \in 1..Len(ms) : OffB(ms, m) < e /\ e <= OffB(ms, m) + NEdges(ms[m])

\* feature rows of the external featurizer: a function of the molecule and
\* the local index only
AtomFeat(mol, a, d_v) == [j \in 1..d_v |-> Unit * (1 + ((mol.n + a + j) % 2))]

BondFeat(mol, e, d_e) == [j \in 1..d_e |-> Unit * (1 + ((mol.n + ((e + 1) \div 2) + j) % 3))]

DescFeat(mol, a, w) == [j \in 1..w |-> Unit * ((mol.n + a + j) % 3)]

PadTo(s, w) == s \o [j \in 1..(w - Len(s)) |-> 0]

Max(S) == IF S = {} THEN 0 ELSE CHOOSE x \in S : \A y \in S : y <= x

Build(ms, d_v, d_e) ==
    LET nA == OffA(ms, Len(ms) + 1)
        nB == OffB(ms, Len(ms) + 1)
        \* incoming global edges of global atom g
        inc(g) == LET m == MolOfAtom(ms, g)
                      l == Incoming(ms[m], g - OffA(ms, m), NEdges(ms[m]))
                  IN  [n \in 1..Len(l) |-> l[n] + OffB(ms, m)]
        width == Max({Len(inc(g)) : g \in 1..nA})
        b2a == [i \in 1..(nB + 1) |->
                  IF i = 1 THEN 0
                  ELSE LET m == MolOfEdge(ms, i - 1)
                       IN  Origin(ms[m], i - 1 - OffB(ms, m)) + OffA(ms, m)]
        a2b == [i \in 1..(nA + 1) |->
                  IF i = 1 THEN PadTo(<<>>, width) ELSE PadTo(inc(i - 1), width)]
    IN  [ n_mols |-> Len(ms),
          V |-> [i \in 1..(nA + 1) |->
                   IF i = 1 THEN Zeros(d_v)
                   ELSE LET m == MolOfAtom(ms, i - 1)
                        IN  AtomFeat(ms[m], i - 1 - OffA(ms, m), d_v)],
          E |-> [i \in 1..(nB + 1) |->
                   IF i = 1 THEN Zeros(d_e)
                   ELSE LET m == MolOfEdge(ms, i - 1)
                        IN  BondFeat(ms[m], i - 1 - OffB(ms, m), d_e)],
          a2b |-> a2b,
          b2a |-> b2a,
          b2revb |-> [i \in 1..(nB + 1) |->
                        IF i = 1 THEN 0
                        ELSE LET m == MolOfEdge(ms, i - 1)
                             IN  Rev(i - 1 - OffB(ms, m)) + OffB(ms, m)],
          a2a |-> [i \in 1..(nA + 1) |-> [n \in 1..width |-> b2a[a2b[i][n] + 1]]],
          \* molecule boundaries: first global atom and number of atoms of each molecule
          a_scope |-> [m \in 1..Len(ms) |-> <<OffA(ms, m) + 1, ms[m].n>>] ]

\* a malformed adjacency: every real edge names edge 1 as its reverse
Corrupt(g) == [g EXCEPT !.b2revb = [i \in 1..Len(g.b2revb) |-> IF i = 1 THEN 0 ELSE 1]]

\* the descriptor tensor of width w aligned with V (row 0 zero-padded)
BuildDesc(ms, w) ==
    [i \in 1..(OffA(ms, Len(ms) + 1) + 1) |->
        IF i = 1 THEN Zeros(w)
        ELSE LET m == MolOfAtom(ms, i - 1)
             IN  DescFeat(ms[m], i - 1 - OffA(ms, m), w)]

\* the invariants of the data model that forward relies on
Involutive(g) ==
    \A e \in 1..(Len(g.b2revb) - 1) :
        /\ g.b2revb[e + 1] # e
        /\ g.b2revb[e + 1] \in 1..(Len(g.b2revb) - 1)
        /\ g.b2revb[g.b2revb[e + 1] + 1] = e

\* each real edge's reverse is listed exactly once in a2b of the edge's origin atom
ReverseListedOnce(g) ==
    \A e \in 1..(Len(g.b2a) - 1) :
        LET l == g.a2b[g.b2a[e + 1] + 1]
        IN  Cardinality({n \in 1..Len(l) : l[n] = g.b2revb[e + 1]}) = 1

WellFormed(g) == g.n_mols >= 1 /\ Involutive(g) /\ ReverseListedOnce(g)

(***************************************************************************)
(* Construction: MessagePassingBlockBase.__init__ and the two              *)
(* setup_weight_matrices.                                                  *)
(***************************************************************************)
Variants == {"bond", "atom"}

\* the (d_v, d_e, d_h) the engines are constructed with
DimChoices == {[d_v |-> 1, d_e |-> 2, d_h |-> 2], [d_v |-> 2, d_e |-> 1, d_h |-> 1]}

\* the d_vd the engines are constructed with, and the widths of the V_d passed to forward
DescDims == {None, Some(2)}

DescWidths == {None, Some(1), Some(2)}

\* (W_i, W_h, W_o) of the variant; W_o = nn.Linear(d_v + d_h, d_h) keeps the default bias
SetupWeightMatrices(variant, d_v, d_e, d_h, bias) ==
    IF variant = "bond"
    THEN <<Layer("W_i", d_e, d_h, bias), Layer("W_h", d_h, d_h, bias),
           Layer("W_o", d_v + d_h, d_h, TRUE)>>
    ELSE <<Layer("W_i", d_v, d_h, bias), Layer("W_h", d_e + d_h, d_h, bias),
           Layer("W_o", d_v + d_h, d_h, TRUE)>>

\* the attributes __init__ leaves on the engine; d_vd and W_vd are set only
\* when d_vd is given (None here stands for "no such attribute")
NewEngine(variant, d_v, d_e, d_h, bias, depth, undirected, d_vd) ==
    LET W == SetupWeightMatrices(variant, d_v, d_e, d_h, bias)
    IN  [ variant |-> variant,
          depth |-> depth,
          undirected |-> undirected,
          output_dim |-> IF d_vd = None THEN d_h ELSE d_h + Val(d_vd),
          d_vd |-> d_vd,
          W_vd |-> IF d_vd = None THEN None
                   ELSE Some(Layer("W_vd", d_h + Val(d_vd), d_h + Val(d_vd), TRUE)),
          W_i |-> W[1], W_h |-> W[2], W_o |-> W[3] ]

\* the feature widths of the graphs an engine is built for
EngineDh(c) == c.W_o.outF

EngineDv(c) == c.W_o.inF - c.W_o.outF

EngineDe(c) == IF c.variant = "bond" THEN c.W_i.inF ELSE c.W_h.inF - c.W_o.outF

(***************************************************************************)
(* The statements of forward, as functions of the local variables          *)
(* s = [H_0, H, M, err] of the call.                                       *)
(***************************************************************************)
\* first value of the loop variable: range(1, self.depth)
LoopStart == 1

\* a loop body that aggregates before it symmetrizes
BondBodyAggregateFirst == <<"aggregate", "symmetrize", "subtract", "update">>

\* the statements of the loop body, in program order
BondBody == <<"symmetrize", "aggregate", "subtract", "update">>

AtomBody == <<"symmetrize", "aggregate", "update">>

Body(c) == IF c.variant = "bond" THEN BondBody ELSE AtomBody

\* H_0 = self.W_i(bmg.E | bmg.V); H = self.tau(H_0)
EmbedStep(c, g) ==
    LET X == IF c.variant = "bond" THEN g.E ELSE g.V
        h0 == Linear(c.W_i, X)
    IN  [H_0 |-> h0, H |-> Tau(h0), M |-> None, err |-> NoError]

\* if self.undirected: H = (H + H[bmg.b2revb]) / 2     (both variants index with b2revb)
SymStep(c, g, s) ==
    IF ~c.undirected THEN s
    ELSE IF ~IndexOK(s.H, g.b2revb) THEN [s EXCEPT !.err = "IndexError"]
    ELSE IF ~AddOK(s.H, Gather(s.H, g.b2revb)) THEN [s EXCEPT !.err = "RuntimeError"]
    ELSE [s EXCEPT !.H = Half(Add(s.H, Gather(s.H, g.b2revb)))]

\* bond: M_e = H_e[bmg.a2b].sum(1)[bmg.b2a]
\* atom: M_v = torch.cat((H_v[bmg.a2a], bmg.E[bmg.a2b]), 2).sum(1)
AggStep(c, g, s) ==
    IF c.variant = "bond"
    THEN [s EXCEPT !.M = Gather(GatherSum(s.H, g.a2b), g.b2a)]
    ELSE [s EXCEPT !.M = Cat(GatherSum(s.H, g.a2a), GatherSum(g.E, g.a2b))]

\* M_e = M_e - H_e[bmg.b2revb]
SubStep(c, g, s) == [s EXCEPT !.M = Sub(s.M, Gather(s.H, g.b2revb))]

\* H = self.dropout(self.tau(H_0 + self.W_h(M)))
UpdStep(c, g, s) == [s EXCEPT !.H = Dropout(Tau(Add(s.H_0, Linear(c.W_h, s.M))))]

BodyStep(name, c, g, s) ==
    CASE name = "symmetrize" -> SymStep(c, g, s)
      [] name = "aggregate" -> AggStep(c, g, s)
      [] name = "subtract" -> SubStep(c, g, s)
      [] name = "update" -> UpdStep(c, g, s)

\* M_v = H[bmg.a2b | bmg.a2a].sum(1)
ReadoutStep(c, g, s) ==
    [s EXCEPT !.M = GatherSum(s.H, IF c.variant = "bond" THEN g.a2b ELSE g.a2a)]

\* finalize(M_v, V, V_d): [out, err, args]
Finalize(c, Mv, V, Vd) ==
    LET Hv == Dropout(Tau(Linear(c.W_o, Cat(V, Mv))))
        ok(o) == [out |-> o, err |-> NoError, args |-> <<>>]
        raise(e, a) == [out |-> None, err |-> e, args |-> a]
        shape(T) == <<Len(T), Width(T)>>
        \* the except clause reads self.d_vd
        handler == IF c.d_vd = None THEN raise("AttributeError", <<"d_vd">>)
                   ELSE raise("InvalidShapeError", <<"V_d", shape(Vd), <<Len(Hv), Val(c.d_vd)>>>>)
    IN  IF ~LinearOK(c.W_o, Cat(V, Mv)) THEN raise("RuntimeError", <<>>)
        ELSE IF Vd = None THEN ok(Hv)
        ELSE IF ~CatOK(Hv, Vd) THEN handler
        ELSE IF c.W_vd = None THEN raise("AttributeError", <<"W_vd">>)
        ELSE IF ~LinearOK(Val(c.W_vd), Cat(Hv, Vd)) THEN handler
        ELSE ok(Dropout(Linear(Val(c.W_vd), Cat(Hv, Vd))))

RECURSIVE RunBody(_, _, _, _)
\* the loop body from statement i on
RunBody(c, g, s, i) ==
    IF i > Len(Body(c)) \/ s.err # NoError THEN s
    ELSE RunBody(c, g, BodyStep(Body(c)[i], c, g, s), i + 1)

\* a loop that runs once more: range(1, self.depth + 1)
LoopPcInclusive(c, n) == IF n <= c.depth THEN "body" ELSE "readout"

\* where the for statement goes when its loop variable is n
LoopPc(c, n) == IF n < c.depth THEN "body" ELSE "readout"

RECURSIVE RunLoop(_, _, _, _)
\* for _ in range(n, self.depth): body
RunLoop(c, g, s, n) ==
    IF LoopPc(c, n) = "readout" \/ s.err # NoError THEN s
    ELSE RunLoop(c, g, RunBody(c, g, s, 1), n + 1)

\* forward(bmg, V_d) as a function: [out, err, args]
Forward(c, g, Vd) ==
    LET s == RunLoop(c, g, EmbedStep(c, g), LoopStart)
    IN  IF s.err # NoError THEN [out |-> None, err |-> s.err, args |-> <<>>]
        ELSE Finalize(c, ReadoutStep(c, g, s).M, g.V, Vd)

(***************************************************************************)
(* The state machine: one engine is constructed, then forward is called    *)
(* once and runs statement by statement.                                   *)
(***************************************************************************)
Init ==
    /\ pc = "new"
    /\ cfg = None
    /\ bmg = None
    /\ V_d = None
    /\ H_0 = None
    /\ H = None
    /\ M = None
    /\ k = 0
    /\ ip = 0
    /\ out = None
    /\ err = [kind |-> NoError, args |-> <<>>]
    /\ hist = [ms |-> <<>>, malformed |-> FALSE, updates |-> 0, log |-> <<>>, Hpre |-> None,
               finalized |-> FALSE]

\* __init__(d_v, d_e, d_h, bias, depth, undirected, d_vd) of a variant
Construct ==
    /\ pc = "new"
    /\ \E variant \in Variants, dims \in DimChoices, bias \in BOOLEAN,
          depth \in 0..MaxDepth, undirected \in BOOLEAN, d_vd \in DescDims :
            cfg' = NewEngine(variant, dims.d_v, dims.d_e, dims.d_h, bias, depth, undirected, d_vd)
    /\ pc' = "ready"
    /\ UNCHANGED <<bmg, V_d, H_0, H, M, k, ip, out, err, hist>>

\* forward is entered with a batch and an optional descriptor: H_0, H
Embed ==
    /\ pc = "ready"
    /\ \E ms \in MolLists, malformed \in BOOLEAN, w \in DescWidths :
        LET g0 == Build(ms, EngineDv(cfg), EngineDe(cfg))
            g == IF malformed THEN Corrupt(g0) ELSE g0
            s == EmbedStep(cfg, g)
        IN  /\ malformed => (Len(ms) = 1 /\ NEdges(ms[1]) >= 2)
            /\ bmg' = g
            /\ V_d' = IF w = None THEN None ELSE BuildDesc(ms, Val(w))
            /\ H_0' = s.H_0
            /\ H' = s.H
            /\ hist' = [hist EXCEPT !.ms = ms, !.malformed = malformed, !.Hpre = s.H]
    /\ k' = LoopStart
    /\ ip' = 1
    /\ pc' = LoopPc(cfg, LoopStart)
    /\ UNCHANGED <<cfg, M, out, err>>

Locals == [H_0 |-> H_0, H |-> H, M |-> M, err |-> NoError]

\* one statement of the loop body; after the last one the for statement goes on.
\* hist.log lists the statements run so far in the current round and hist.Hpre
\* is H as the round found it.
BodyStatement(name) ==
    /\ pc = "body"
    /\ Body(cfg)[ip] = name
    /\ LET s == BodyStep(name, cfg, bmg, Locals)
           last == ip = Len(Body(cfg))
       IN  /\ H' = s.H
           /\ M' = s.M
           /\ err' = [kind |-> s.err, args |-> <<>>]
           /\ hist' = [hist EXCEPT
                         !.log = IF ip = 1 THEN <<name>> ELSE Append(@, name),
                         !.Hpre = IF ip = 1 THEN H ELSE @,
                         !.updates = IF name = "update" THEN @ + 1 ELSE @]
           /\ IF s.err # NoError THEN /\ pc' = "error"
                                   /\ UNCHANGED <<k, ip>>
              ELSE IF last THEN /\ k' = k + 1
                                /\ ip' = 1
                                /\ pc' = LoopPc(cfg, k + 1)
              ELSE /\ ip' = ip + 1
                   /\ UNCHANGED <<k, pc>>
    /\ UNCHANGED <<cfg, bmg, V_d, H_0, out>>

Symmetrize == BodyStatement("symmetrize")

Aggregate == BodyStatement("aggregate")

SubtractReverse == BodyStatement("subtract")

Update == BodyStatement("update")

\* the aggregation after the loop: M_v
Readout ==
    /\ pc = "readout"
    /\ M' = ReadoutStep(cfg, bmg, Locals).M
    /\ pc' = "finalize"
    /\ UNCHANGED <<cfg, bmg, V_d, H_0, H, k, ip, out, err, hist>>

\* return self.finalize(M_v, bmg.V, V_d)
Finalization ==
    /\ pc = "finalize"
    /\ LET r == Finalize(cfg, M, bmg.V, V_d)
       IN  /\ out' = r.out
           /\ err' = [kind |-> r.err, args |-> r.args]
           /\ pc' = IF r.err = NoError THEN "done" ELSE "error"
    /\ hist' = [hist EXCEPT !.finalized = TRUE]
    /\ UNCHANGED <<cfg, bmg, V_d, H_0, H, M, k, ip>>

Next ==
    \/ Construct
    \/ Embed
    \/ Symmetrize
    \/ Aggregate
    \/ SubtractReverse
    \/ Update
    \/ Readout
    \/ Finalization

Spec == Init /\ [][Next]_vars

(***************************************************************************)
(* Properties.                                                             *)
(***************************************************************************)
\* the tensor the recurrence starts from: H_0 = W_i(E) or W_i(V)
Embedded == Tau(Linear(cfg.W_i, IF cfg.variant = "bond" THEN bmg.E ELSE bmg.V))

\* the neighbour lists the variant gathers through
Adjacency == IF cfg.variant = "bond" THEN bmg.a2b ELSE bmg.a2a

\* the preconditions of the engine hold: depth >= 1 and a non-empty batch
\* with a well-formed adjacency
ValidCall == cfg.depth >= 1 /\ WellFormed(bmg)

\* C1: the matrix returned by encode has exactly b rows, one per molecule graph
\* of the batch (stated as the claim states it; the code returns one row per
\* atom plus the sentinel row).
C1_OneRowPerMolecule ==
    (pc = "done" /\ ValidCall) => Len(out) = bmg.n_mols

\* C2: a returned row has width d_h + d_v without a descriptor and
\* d_h + d_v + d_vd with a descriptor of the configured width (stated as the
\* claim states it; W_o maps d_v + d_h features to d_h).
C2_OutputWidth ==
    (pc = "done" /\ ValidCall) =>
        Width(out) = EngineDh(cfg) + EngineDv(cfg) + (IF V_d = None THEN 0 ELSE Width(V_d))

\* the descriptor passed to forward does not have the configured width
DescriptorMismatch == V_d # None /\ (cfg.d_vd = None \/ Width(V_d) # Val(cfg.d_vd))

\* C3: finalize with a descriptor whose width differs from the configured d_vd
\* (an engine built without d_vd included) ends in InvalidShapeError naming
\* V_d, the actual shape and the expected shape [rows, d_vd]; it ends in no
\* other error and returns nothing.
C3_ShapeMismatchError ==
    (hist.finalized /\ ValidCall /\ DescriptorMismatch) =>
        /\ pc = "error"
        /\ out = None
        /\ err.kind = "InvalidShapeError"
        /\ err.args = <<"V_d", <<Len(V_d), Width(V_d)>>, <<Len(bmg.V), Val(cfg.d_vd)>>>>

Called == pc \notin {"new", "ready"}

\* statement `name` of the loop body is the last one that ran
JustRan(name) ==
    /\ pc \in {"body", "readout", "error"}
    /\ hist.log # <<>>
    /\ hist.log[Len(hist.log)] = name

\* the 0-based indices of the real directed edges / real atoms of the batch
RealEdges == 1..(Len(bmg.b2a) - 1)

RealAtoms == 1..(Len(bmg.V) - 1)

\* the entries of a padded neighbour list that are not padding
Unpadded(l) == SelectSeq(l, LAMBDA x : x # 0)

\* C5 (bond variant): after the subtraction the message of a real edge e is
\* the sum of the hidden states of the real edges listed in a2b[b2a[e]] other
\* than reverse(e); on the two edges of a 2-atom molecule it is the zero
\* vector (stated as the claim states it).
C5_MessageExcludesReverse ==
    (Called /\ cfg.variant = "bond" /\ ValidCall /\ JustRan("subtract")) =>
        \A e \in RealEdges :
            LET l == bmg.a2b[bmg.b2a[e + 1] + 1]
                others == SelectSeq(l, LAMBDA x : x # 0 /\ x # bmg.b2revb[e + 1])
            IN  /\ M[e + 1] = SumRows(Gather(H, others), EngineDh(cfg))
                /\ hist.ms[MolOfEdge(hist.ms, e)].n = 2 => M[e + 1] = Zeros(EngineDh(cfg))

\* the next statement gathers through a2b / a2a
AboutToGather == (pc = "body" /\ Body(cfg)[ip] = "aggregate") \/ pc = "readout"

\* C6: whenever H (and E) is gathered through a2b / a2a its row 0 is all-zero,
\* so the sum over a padded neighbour list is the sum over the real
\* neighbours (stated as the claim states it, bias included).
C6_SentinelRowZero ==
    (AboutToGather /\ ValidCall) =>
        /\ H[1] = Zeros(EngineDh(cfg))
        /\ bmg.E[1] = Zeros(EngineDe(cfg))
        /\ \A a \in RealAtoms :
              SumRows(Gather(H, Adjacency[a + 1]), EngineDh(cfg))
                  = SumRows(Gather(H, Unpadded(Adjacency[a + 1])), EngineDh(cfg))

\* molecule m of the batch encoded alone, with its own rows of the descriptor
Alone(m) ==
    Forward(cfg, Build(<<hist.ms[m]>>, EngineDv(cfg), EngineDe(cfg)),
            IF V_d = None THEN None ELSE BuildDesc(<<hist.ms[m]>>, Width(V_d)))

\* C7: the rows returned for a molecule encoded in a batch are the rows
\* returned when it is encoded alone (stated as the claim states it).
C7_BatchDecomposable ==
    (pc = "done" /\ ValidCall) =>
        \A m \in 1..bmg.n_mols :
            LET alone == Alone(m)
            IN  /\ alone.err = NoError
                /\ \A a \in 1..hist.ms[m].n :
                      out[bmg.a_scope[m][1] + a] = alone.out[a + 1]

\* C8: no engine with depth < 1 is constructed, and a call with an empty
\* batch or a b2revb that is not involutive raises before W_i is applied and
\* returns nothing (stated as the claim states it).
C8_PreconditionsChecked ==
    /\ pc # "new" => cfg.depth >= 1
    /\ (Called /\ (bmg.n_mols = 0 \/ ~Involutive(bmg))) =>
            (pc = "error" /\ H_0 = None /\ out = None)

\* the hidden state the reverse subtraction and the update of a round work on:
\* (Hpre + Hpre[b2revb]) / 2
Symmetrized == Half(Add(hist.Hpre, Gather(hist.Hpre, bmg.b2revb)))

\* C9 (bond variant, undirected, b2revb involutive): right after the
\* symmetrization H[e] = H[b2revb[e]] for every directed edge e (each the mean
\* of the two states the round found); the statements of a round run in the
\* order symmetrize, aggregate, subtract, update, so the round's new state is
\* tau(H_0 + W_h(sum of symmetrized states over a2b - symmetrized reverse)).
C9_SymmetricThenOrdered ==
    (Called /\ cfg.variant = "bond" /\ cfg.undirected /\ Involutive(bmg)) =>
        /\ JustRan("symmetrize") =>
              \A e \in 0..(Len(bmg.b2revb) - 1) :
                  /\ H[e + 1] = H[bmg.b2revb[e + 1] + 1]
                  /\ VecAdd(H[e + 1], H[e + 1])
                        = VecAdd(hist.Hpre[e + 1], hist.Hpre[bmg.b2revb[e + 1] + 1])
        /\ hist.log = SubSeq(<<"symmetrize", "aggregate", "subtract", "update">>, 1, Len(hist.log))
        /\ JustRan("update") =>
              H = Tau(Add(H_0, Linear(cfg.W_h,
                      Sub(Gather(GatherSum(Symmetrized, bmg.a2b), bmg.b2a),
                          Gather(Symmetrized, bmg.b2revb)))))

\* the second round of an undirected bond engine has just symmetrized a state
\* in which an edge and its reverse differed
C9_Witness ==
    /\ Called
    /\ cfg.variant = "bond"
    /\ cfg.undirected
    /\ Involutive(bmg)
    /\ pc = "body"
    /\ JustRan("symmetrize")
    /\ hist.updates >= 1
    /\ \E e \in RealEdges : hist.Hpre[e + 1] # hist.Hpre[bmg.b2revb[e + 1] + 1]

\* C10 (atom variant, undirected, depth >= 2): the symmetrization of a round
\* gathers the atom state through valid atom indices only, leaves one row per
\* atom, and the call completes (stated as the claim states it).
C10_AtomSymmetrizeCompletes ==
    (Called /\ cfg.variant = "atom" /\ cfg.undirected /\ cfg.depth >= 2 /\ ValidCall) =>
        /\ pc # "error"
        /\ JustRan("symmetrize") =>
              /\ IndexOK(hist.Hpre, bmg.b2revb)
              /\ Len(H) = Len(bmg.V)

\* step 1 of finalize: dropout(tau(W_o(cat(V, M_v))))
FinalizeStepOne == Dropout(Tau(Linear(cfg.W_o, Cat(bmg.V, M))))

\* C11: with a descriptor of the configured width finalize returns
\* dropout(tau(W_vd(cat(H, V_d)))), H the result of step 1, the activation
\* applied to W_vd's output as it is to W_o's; without a descriptor it returns
\* the result of step 1 unchanged (stated as the claim states it).
C11_DescriptorProjectionActivated ==
    (pc = "done" /\ ValidCall) =>
        out = IF V_d = None THEN FinalizeStepOne
              ELSE Dropout(Tau(Linear(Val(cfg.W_vd), Cat(FinalizeStepOne, V_d))))

====
